---- MODULE Spec2Model ----
(***************************************************************************)
(* Lifecycle service of the Kafka request (kafkaService): admission under  *)
(* the service mutex, preparation, the status transition guard,            *)
(* deprovisioning and deletion, over a relational store with soft delete.  *)
(* Every store statement and every external call is one atomic step; a     *)
(* handler that issues several of them is a sequence of steps, so that     *)
(* concurrent handlers interleave exactly where the code leaves room.      *)
(***************************************************************************)
EXTENDS Integers, Sequences, FiniteSets, Bags, TLC

\* ---------------------------------------------------------------- bounds
NumProcs == 2
MaxCalls == 2
Now == 1
MaxAge == 1
\* kafkaConfig.KafkaCapacity.MaxCapacity and kafkaConfig.NumOfBrokers of the
\* service instance
MaxCapacity == 2
NumOfBrokers == 3

\* ------------------------------------------------------- configuration
recordTTL == 300
DefaultKafkaVersion == "2.7.0"
\* clusterService.GetClusterDNS: the ingress DNS name of a cluster
ClusterDNSName(clusterID) == <<"apps", clusterID>>
KafkaDomainName == <<"kafka", "public">>
DefaultIngressDnsNamePrefix == "apps"
ManagedKafkaIngressDnsNamePrefix == "kas"
productId == "RHOSAKTrial"

Owners == {"u1", "u2"}
ClusterIDs == {"", "c1", "c2"}

\* constants.KafkaStatus
KafkaRequestStatusAccepted == "accepted"
KafkaRequestStatusProvisioning == "provisioning"
KafkaRequestStatusReady == "ready"
KafkaRequestStatusFailed == "failed"
KafkaRequestStatusDeprovision == "deprovision"
KafkaRequestStatusDeleting == "deleting"
KafkaStatuses ==
    {KafkaRequestStatusAccepted, KafkaRequestStatusProvisioning,
     KafkaRequestStatusReady, KafkaRequestStatusFailed,
     KafkaRequestStatusDeprovision, KafkaRequestStatusDeleting}

kafkaDeletionStatuses == {KafkaRequestStatusDeleting, KafkaRequestStatusDeprovision}
kafkaManagedCRStatuses ==
    {KafkaRequestStatusProvisioning, KafkaRequestStatusDeprovision,
     KafkaRequestStatusReady, KafkaRequestStatusFailed}

\* errors.ServiceError kinds; NoError is the nil error
NoError == ""
ErrorGeneral == "General"
ErrorTooManyKafkaInstancesReached == "TooManyKafkaInstancesReached"
ErrorFailedToCheckQuota == "FailedToCheckQuota"
ErrorInsufficientQuota == "InsufficientQuota"
ErrorUnauthenticated == "Unauthenticated"
ErrorNotFound == "NotFound"
ErrorValidation == "Validation"
ErrorFailedToCreateSSOClient == "FailedToCreateSSOClient"

VARIABLES
    table,      \* the kafka_requests table: id -> row (soft-deleted rows stay)
    mu,         \* kafkaService.mu: whether it is locked
    calls,      \* the calls in progress, one record each (a bag: two
                \* handlers may run the same call at the same point)
    last,       \* the call that returned last, with what it returned
    ncalls,     \* number of calls started
    config,     \* KafkaConfig / KeycloakConfig flags of this service instance
    dns,        \* record names present at the DNS authority
    sso,        \* client ids present at the identity provider
    metrics     \* operation counters

vars == <<table, mu, calls, last, ncalls, config, dns, sso, metrics>>

\* ------------------------------------------------------------ the store
\* the organisation the claims of a user carry: u1 and u3 share one, a
\* caller without a username has none
OrgOf(owner) ==
    IF owner \in {"u1", "u3"} THEN "o1" ELSE IF owner = "u2" THEN "o2" ELSE ""

NoHost == [ident |-> <<>>, domain |-> <<>>]
NoSso == <<>>

\* api.KafkaRequest, the fields the service reads or writes; this is the
\* zero value of the struct
NoRequest ==
    [id |-> 0, owner |-> "", org |-> "", status |-> "", version |-> "",
     clusterID |-> "", host |-> NoHost, ssoId |-> NoSso, ssoSecret |-> NoSso,
     createdAt |-> -1, deleted |-> FALSE]

EmptyId == 0
MissingId == -1

\* rows a query sees: gorm adds deleted_at IS NULL to every statement
LiveIds(t) == {i \in DOMAIN t : ~t[i].deleted}
Count(t) == Cardinality(LiveIds(t))
NextId(t) == Cardinality(DOMAIN t) + 1

\* ----------------------------------------------------- pure helpers
\* strings.Replace(s, old, new, 1) on a dotted name held as its labels
Replace1(s, old, new) ==
    LET hits == {i \in 1..Len(s) : s[i] = old}
    IN  IF hits = {} THEN s
        ELSE LET k == CHOOSE i \in hits : \A j \in hits : i <= j
             IN  [s EXCEPT ![k] = new]

\* the DNS-safe label of a record: a deterministic function of its name
\* and id, which never change
buildTruncateKafkaIdentifier(req) == <<"kafka-label", req.id>>

BuildKeycloakClientNameIdentifier(id) == <<"kafka", id>>

\* the secret the identity provider hands back for a client
ClientSecret(clientId) == <<"secret", clientId[2]>>

\* fmt.Sprintf("%s.%s", identifier, domain)
BootstrapServerHost(ident, domain) == [ident |-> ident, domain |-> domain]

buildResourceRecordChange(recordName, clusterIngress, action) ==
    [action |-> action, name |-> recordName, type |-> "CNAME",
     ttl |-> recordTTL, values |-> <<clusterIngress>>]

\* lines 782-785 with the brokers numbered from one
buildKafkaClusterCNAMESRecordBatchFromOne(recordName, clusterIngress, action, numOfBrokers) ==
    LET ingress == <<"elb">> \o clusterIngress
    IN  <<buildResourceRecordChange([prefix |-> <<>>, host |-> recordName],
                                    ingress, action),
          buildResourceRecordChange([prefix |-> <<"admin-server">>, host |-> recordName],
                                    ingress, action)>>
        \o [i \in 1..numOfBrokers |->
              buildResourceRecordChange([prefix |-> <<"broker", i>>, host |-> recordName],
                                        ingress, action)]

buildKafkaClusterCNAMESRecordBatch(recordName, clusterIngress, action, numOfBrokers) ==
    LET ingress == <<"elb">> \o clusterIngress
    IN  <<buildResourceRecordChange([prefix |-> <<>>, host |-> recordName],
                                    ingress, action),
          buildResourceRecordChange([prefix |-> <<"admin-server">>, host |-> recordName],
                                    ingress, action)>>
        \o [i \in 1..numOfBrokers |->
              buildResourceRecordChange([prefix |-> <<"broker", i - 1>>, host |-> recordName],
                                        ingress, action)]

\* the DNS authority applying one batch to its zone
ChangeResourceRecordSets(zone, batch) ==
    LET names(a) == {batch[i].name : i \in {j \in 1..Len(batch) : batch[j].action = a}}
    IN  (zone \cup names("CREATE")) \ names("DELETE")

\* ------------------------------------------------------------ calls
\* context.Context: whether it carries claims, the username and the
\* organisation id of the claims, and the filter-by-organisation flag
NoCtx == [claims |-> FALSE, user |-> "", org |-> "", filterByOrg |-> FALSE]
Contexts ==
    {NoCtx} \cup {[claims |-> TRUE, user |-> u, org |-> OrgOf(u), filterByOrg |-> FALSE] :
                     u \in Owners \cup {""}}

\* the contexts of Get and List: the username and the organisation id are
\* two claims read apart (lines 370 and 375), the flag comes from the context
Orgs == {"o1", "o2"}
ReadContexts ==
    {NoCtx} \cup {[claims |-> TRUE, user |-> u, org |-> o, filterByOrg |-> f] :
                     u \in Owners \cup {""}, o \in Orgs, f \in BOOLEAN}

Idle ==
    [op |-> "none", pc |-> "idle", id |-> 0, status |-> "", ctx |-> NoCtx,
     users |-> {}, age |-> 0, req |-> NoRequest,
     count |-> -1, hasCapacity |-> FALSE, quota |-> "none", read |-> "",
     attempted |-> FALSE, wrote |-> FALSE, at |-> "idle", result |-> <<>>,
     page |-> 0, size |-> 0, total |-> 0,
     ingress |-> <<>>, action |-> "", brokers |-> 0, clusterID |-> "",
     err |-> NoError]

\* what a finished call leaves behind: what it returned and what it was
\* called on
Done(c, err) ==
    [Idle EXCEPT !.op = c.op, !.pc = "done", !.id = c.id, !.status = c.status,
                 !.ctx = c.ctx, !.users = c.users, !.age = c.age,
                 !.read = c.read, !.hasCapacity = c.hasCapacity, !.quota = c.quota,
                 !.attempted = c.attempted, !.wrote = c.wrote,
                 !.at = IF c.pc = "done" THEN c.at ELSE c.pc, !.result = c.result,
                 !.page = c.page, !.size = c.size, !.total = c.total,
                 !.clusterID = c.clusterID,
                 !.err = err]

InFlight == BagToSet(calls)

\* a request handler takes call c; a call that returns without touching
\* the store or a collaborator returns at once
Begin(c) ==
    /\ BagCardinality(calls) < NumProcs
    /\ ncalls < MaxCalls
    /\ ncalls' = ncalls + 1
    /\ IF c.pc = "done"
       THEN calls' = calls /\ last' = c
       ELSE calls' = calls (+) SetToBag({c}) /\ last' = last

\* call c moves on as d
Step(c, d) ==
    /\ calls' = (calls (-) SetToBag({c})) (+) SetToBag({d})
    /\ last' = last

\* call c, by now d, returns err
Return(c, d, err) ==
    /\ calls' = calls (-) SetToBag({c})
    /\ last' = Done(d, err)

\* ------------------------------------------------------------- Init
\* a row as a successful preparation leaves it under configuration cfg
PreparedHost(id, clusterID, cfg) ==
    LET ident == buildTruncateKafkaIdentifier([NoRequest EXCEPT !.id = id])
    IN  IF cfg.extCert
        THEN BootstrapServerHost(ident, KafkaDomainName)
        ELSE BootstrapServerHost(ident,
                 Replace1(ClusterDNSName(clusterID), DefaultIngressDnsNamePrefix,
                          ManagedKafkaIngressDnsNamePrefix))

InitRows(cfg) ==
    {[NoRequest EXCEPT !.id = 1, !.owner = "u1", !.org = OrgOf("u1"),
                       !.status = KafkaRequestStatusAccepted,
                       !.version = DefaultKafkaVersion, !.clusterID = c,
                       !.createdAt = 0] : c \in ClusterIDs}
    \cup
    {[NoRequest EXCEPT !.id = 1, !.owner = "u1", !.org = OrgOf("u1"),
                       !.status = s, !.version = DefaultKafkaVersion,
                       !.clusterID = "c1", !.createdAt = 0,
                       !.host = PreparedHost(1, "c1", cfg),
                       !.ssoId = IF cfg.auth THEN BuildKeycloakClientNameIdentifier(1)
                                 ELSE NoSso,
                       !.ssoSecret = IF cfg.auth
                                     THEN ClientSecret(BuildKeycloakClientNameIdentifier(1))
                                     ELSE NoSso] :
        s \in KafkaStatuses \ {KafkaRequestStatusAccepted}}

\* EnableQuotaService, EnableKafkaExternalCertificate,
\* EnableAuthenticationOnKafka, KafkaLifespan.LongLivedKafkas
Configs ==
    {[quota |-> FALSE, extCert |-> FALSE, auth |-> FALSE, longLived |-> {}],
     [quota |-> TRUE, extCert |-> TRUE, auth |-> TRUE, longLived |-> {1}]}

MetricNames == {"deprovision_total", "deprovision_success", "delete_total", "delete_success"}

Init ==
    /\ config \in Configs
    /\ \/ /\ table = <<>>
          /\ dns = {}
          /\ sso = {}
       \/ \E r \in InitRows(config) :
          /\ table = <<r>>
          /\ dns = IF config.extCert /\ r.host # NoHost
                   THEN ChangeResourceRecordSets({},
                            buildKafkaClusterCNAMESRecordBatch(r.host,
                                Replace1(ClusterDNSName(r.clusterID),
                                         DefaultIngressDnsNamePrefix,
                                         ManagedKafkaIngressDnsNamePrefix),
                                "CREATE", NumOfBrokers))
                   ELSE {}
          /\ sso = IF r.ssoId # NoSso THEN {r.ssoId} ELSE {}
    /\ mu = FALSE
    /\ calls = EmptyBag
    /\ last = Idle
    /\ ncalls = 0
    /\ metrics = [m \in MetricNames |-> 0]

\* ------------------------------------------------- HasAvailableCapacity
\* the comparison of line 261 written count <= MaxCapacity
HasAvailableCapacityOffByOne(t, ok) ==
    IF ~ok
    THEN [has |-> FALSE, err |-> ErrorGeneral]
    ELSE [has |-> Count(t) <= MaxCapacity, err |-> NoError]

\* the count of line 256 ignored: capacity always reported available
HasAvailableCapacityUnchecked(t, ok) ==
    IF ~ok
    THEN [has |-> FALSE, err |-> ErrorGeneral]
    ELSE [has |-> TRUE, err |-> NoError]

\* line 255 counting only the records that are not under deletion
HasAvailableCapacityNotUnderDeletion(t, ok) ==
    IF ~ok
    THEN [has |-> FALSE, err |-> ErrorGeneral]
    ELSE [has |-> Cardinality({i \in LiveIds(t) :
                                 t[i].status \notin kafkaDeletionStatuses})
                     < MaxCapacity,
          err |-> NoError]

\* ok: whether the count statement succeeds
HasAvailableCapacity(t, ok) ==
    IF ~ok
    THEN [has |-> FALSE, err |-> ErrorGeneral]
    ELSE [has |-> Count(t) < MaxCapacity, err |-> NoError]

\* ----------------------------------------------------- RegisterKafkaJob
RegisterKafkaJobCall ==
    \E owner \in Owners :
        /\ Begin([Idle EXCEPT !.op = "RegisterKafkaJob", !.pc = "lock",
                                 !.req = [NoRequest EXCEPT !.owner = owner,
                                                           !.org = OrgOf(owner)]])
        /\ UNCHANGED <<table, mu, config, dns, sso, metrics>>

\* the admission path without k.mu.Lock()
MutexFreeNoLock(locked) == TRUE

\* sync.Mutex: Lock returns only when no process holds the mutex
MutexFree(locked) == ~locked

RegisterKafkaJobLock(call) ==
    /\ call \in InFlight
    /\ call.pc = "lock"
    /\ MutexFree(mu)
    /\ mu' = TRUE
    /\ Step(call, [call EXCEPT !.pc = "capacity"])
    /\ UNCHANGED <<table, ncalls, config, dns, sso, metrics>>

\* the admission path with k.mu.Unlock() before the final return only, and
\* not deferred
UnlockOnSuccessOnly(locked, err) == IF err = NoError THEN FALSE ELSE locked

\* line 267: defer k.mu.Unlock() runs when RegisterKafkaJob returns,
\* whatever it returns
DeferredUnlock(locked, err) == FALSE

\* lines 268-273; the deferred Unlock runs on every return
RegisterKafkaJobCapacity(call) ==
    /\ call \in InFlight
    /\ call.pc = "capacity"
    /\ \E ok \in BOOLEAN :
        LET r == HasAvailableCapacity(table, ok)
            c == [call EXCEPT !.count = IF ok THEN Count(table) ELSE -1,
                                  !.hasCapacity = r.has]
        IN  IF r.err # NoError
            THEN Return(call, c, ErrorGeneral)
                 /\ mu' = DeferredUnlock(mu, ErrorGeneral)
            ELSE IF ~r.has
            THEN Return(call, c, ErrorTooManyKafkaInstancesReached)
                 /\ mu' = DeferredUnlock(mu, ErrorTooManyKafkaInstancesReached)
            ELSE Step(call, [c EXCEPT !.pc = IF config.quota THEN "quota" ELSE "save"])
                 /\ mu' = mu
    /\ UNCHANGED <<table, ncalls, config, dns, sso, metrics>>

\* lines 281-283 left out: a denied reservation is not looked at
ReserveQuotaErrorIgnoresDenied(outcome) ==
    IF outcome = "error" THEN ErrorFailedToCheckQuota ELSE NoError

\* lines 278-283: the error RegisterKafkaJob returns for an answer of the
\* quota authority
ReserveQuotaError(outcome) ==
    IF outcome = "error" THEN ErrorFailedToCheckQuota
    ELSE IF outcome = "denied" THEN ErrorInsufficientQuota
    ELSE NoError

\* lines 276-284: quotaService.ReserveQuota, an external call
RegisterKafkaJobQuota(call) ==
    /\ call \in InFlight
    /\ call.pc = "quota"
    /\ \E outcome \in {"allowed", "denied", "error"} :
        LET c == [call EXCEPT !.quota = outcome]
        IN  IF ReserveQuotaError(outcome) # NoError
            THEN Return(call, c, ReserveQuotaError(outcome))
                 /\ mu' = DeferredUnlock(mu, ReserveQuotaError(outcome))
            ELSE Step(call, [c EXCEPT !.pc = "save"]) /\ mu' = mu
    /\ UNCHANGED <<table, ncalls, config, dns, sso, metrics>>

\* line 287 left out: the status stays the zero value
NewKafkaRequestNoStatus(req, id, createdAt) ==
    [req EXCEPT !.id = id, !.createdAt = createdAt,
                !.version = DefaultKafkaVersion]

\* lines 286-287: the row handed to Save
NewKafkaRequest(req, id, createdAt) ==
    [req EXCEPT !.id = id, !.createdAt = createdAt,
                !.version = DefaultKafkaVersion,
                !.status = KafkaRequestStatusAccepted]

\* lines 285-292
RegisterKafkaJobSave(call) ==
    /\ call \in InFlight
    /\ call.pc = "save"
    /\ \E ok \in BOOLEAN :
        IF ~ok
        THEN /\ Return(call, call, ErrorGeneral)
             /\ table' = table
             /\ mu' = DeferredUnlock(mu, ErrorGeneral)
        ELSE LET row == NewKafkaRequest(call.req, NextId(table), Now)
             IN  /\ table' = Append(table, row)
                 /\ Return(call, [call EXCEPT !.id = row.id, !.req = row,
                                               !.wrote = TRUE], NoError)
                 /\ mu' = DeferredUnlock(mu, NoError)
    /\ UNCHANGED <<ncalls, config, dns, sso, metrics>>

\* ------------------------------------------------------- GetById
\* handleGetError: a missing row is NotFound, any other failure General
handleGetError(notFound) == IF notFound THEN ErrorNotFound ELSE ErrorGeneral

\* ok: whether the store answers the query
GetById(t, id, ok) ==
    IF id = EmptyId THEN [row |-> NoRequest, err |-> ErrorValidation]
    ELSE IF ~ok THEN [row |-> NoRequest, err |-> handleGetError(FALSE)]
    ELSE IF id \notin LiveIds(t) THEN [row |-> NoRequest, err |-> handleGetError(TRUE)]
    ELSE [row |-> t[id], err |-> NoError]

\* ----------------------------------------------------- UpdateStatus
\* lines 650-653 left out: a write of the status already there goes ahead
UpdateStatusAllowedNoSameCheck(current, status) ==
    IF current = KafkaRequestStatusDeprovision /\ status # KafkaRequestStatusDeleting
    THEN FALSE
    ELSE TRUE

\* lines 645-653: whether the status read lets the write go ahead
UpdateStatusAllowed(current, status) ==
    IF current = KafkaRequestStatusDeprovision /\ status # KafkaRequestStatusDeleting
    THEN FALSE
    ELSE IF current = status
    THEN FALSE
    ELSE TRUE

\* line 642-643: what UpdateStatus returns when GetById fails
UpdateStatusLookupFailed == [attempted |-> TRUE, err |-> ErrorGeneral]

\* line 656: UPDATE kafka_requests SET status = ? WHERE id = ? AND deleted_at IS NULL
\* line 656 written as a save of the whole record {ID: id, Status: status}
UpdateStatusStmtWholeRow(t, id, status) ==
    [i \in DOMAIN t |->
        IF i = id /\ ~t[i].deleted
        THEN [t[i] EXCEPT !.status = status, !.host = NoHost,
                          !.ssoId = NoSso, !.ssoSecret = NoSso]
        ELSE t[i]]

UpdateStatusStmt(t, id, status) ==
    [i \in DOMAIN t |->
        IF i = id /\ ~t[i].deleted THEN [t[i] EXCEPT !.status = status] ELSE t[i]]

Bump(m, names, n) == [k \in DOMAIN m |-> IF k \in names THEN m[k] + n ELSE m[k]]

\* lines 430-438 with the error looked at before the boolean:
\* RegisterKafkaDeprovisionJob returns whatever error UpdateStatus reports
UpdateStatusReturnErrorFirst(call, c, attempted, err) ==
    IF c.op = "UpdateStatus"
    THEN /\ Return(call, [c EXCEPT !.attempted = attempted], err)
         /\ metrics' = metrics
    ELSE IF err # NoError
    THEN /\ Return(call, [c EXCEPT !.attempted = attempted], handleGetError(FALSE))
         /\ metrics' = metrics
    ELSE /\ Return(call, [c EXCEPT !.attempted = attempted], NoError)
         /\ metrics' = Bump(metrics, {"deprovision_success"}, 1)

\* UpdateStatus returns (attempted, err) to its caller: the reconciler, or
\* lines 430-438 of RegisterKafkaDeprovisionJob
UpdateStatusReturn(call, c, attempted, err) ==
    IF c.op = "UpdateStatus"
    THEN /\ Return(call, [c EXCEPT !.attempted = attempted], err)
         /\ metrics' = metrics
    ELSE IF attempted /\ err # NoError
    THEN /\ Return(call, [c EXCEPT !.attempted = attempted], handleGetError(FALSE))
         /\ metrics' = metrics
    ELSE IF attempted
    THEN /\ Return(call, [c EXCEPT !.attempted = attempted], NoError)
         /\ metrics' = Bump(metrics, {"deprovision_success"}, 1)
    ELSE /\ Return(call, [c EXCEPT !.attempted = attempted], NoError)
         /\ metrics' = metrics

UpdateStatusCall ==
    \E id \in DOMAIN table \cup {MissingId}, status \in KafkaStatuses :
        /\ Begin([Idle EXCEPT !.op = "UpdateStatus", !.pc = "us_get",
                                 !.id = id, !.status = status])
        /\ UNCHANGED <<table, mu, config, dns, sso, metrics>>

\* lines 642-654
UpdateStatusGet(call) ==
    /\ call \in InFlight
    /\ call.pc = "us_get"
    /\ \E ok \in BOOLEAN :
        LET c == call
            g == GetById(table, c.id, ok)
        IN  IF g.err # NoError
            THEN UpdateStatusReturn(call, c, UpdateStatusLookupFailed.attempted,
                                    UpdateStatusLookupFailed.err)
            ELSE IF ~UpdateStatusAllowed(g.row.status, c.status)
            THEN UpdateStatusReturn(call, [c EXCEPT !.read = g.row.status], FALSE, ErrorGeneral)
            ELSE /\ Step(call, [c EXCEPT !.read = g.row.status, !.pc = "us_write"])
                 /\ metrics' = metrics
    /\ UNCHANGED <<table, mu, ncalls, config, dns, sso>>

\* lines 656-660
UpdateStatusWrite(call) ==
    /\ call \in InFlight
    /\ call.pc = "us_write"
    /\ \E ok \in BOOLEAN :
        LET c == [call EXCEPT !.wrote = TRUE]
        IN  IF ~ok
            THEN /\ UpdateStatusReturn(call, c, TRUE, ErrorGeneral)
                 /\ table' = table
            ELSE /\ UpdateStatusReturn(call, c, TRUE, NoError)
                 /\ table' = UpdateStatusStmt(table, c.id, c.status)
    /\ UNCHANGED <<mu, ncalls, config, dns, sso>>

\* ------------------------------------------ RegisterKafkaDeprovisionJob
\* lines 409-418: no store access yet
RegisterKafkaDeprovisionJobCall ==
    \E id \in DOMAIN table \cup {MissingId, EmptyId}, ctx \in Contexts :
        LET c == [Idle EXCEPT !.op = "RegisterKafkaDeprovisionJob",
                              !.id = id, !.ctx = ctx]
        IN  /\ Begin(IF id = EmptyId
                        THEN Done(c, ErrorValidation)
                        ELSE IF ~ctx.claims
                        THEN Done(c, ErrorUnauthenticated)
                        ELSE [c EXCEPT !.pc = "rd_first"])
            /\ UNCHANGED <<table, mu, config, dns, sso, metrics>>

\* lines 419-420 without the owner = ? of the query
OwnedByAnyone(t, id, user) == id \in LiveIds(t)

\* lines 419-420: WHERE id = ? AND owner = ? (AND deleted_at IS NULL)
OwnedBy(t, id, user) == id \in LiveIds(t) /\ t[id].owner = user

\* lines 419-426: SELECT ... WHERE id = ? AND owner = ? AND deleted_at IS NULL
RegisterKafkaDeprovisionJobFirst(call) ==
    /\ call \in InFlight
    /\ call.pc = "rd_first"
    /\ \E ok \in BOOLEAN :
        LET c == call
            found == OwnedBy(table, c.id, c.ctx.user)
        IN  IF ~ok
            THEN Return(call, c, handleGetError(FALSE)) /\ metrics' = metrics
            ELSE IF ~found
            THEN Return(call, c, handleGetError(TRUE)) /\ metrics' = metrics
            ELSE /\ Step(call, [c EXCEPT !.pc = "us_get", !.req = table[c.id],
                                      !.status = KafkaRequestStatusDeprovision])
                 /\ metrics' = Bump(metrics, {"deprovision_total"}, 1)
    /\ UNCHANGED <<table, mu, ncalls, config, dns, sso>>

\* ---------------------------------------------- bulk deprovisioning
\* the rows one bulk UPDATE ... SET status = 'deprovision' touches
BulkDeprovisionStmt(t, ids) ==
    [i \in DOMAIN t |->
        IF i \in ids THEN [t[i] EXCEPT !.status = KafkaRequestStatusDeprovision] ELSE t[i]]

\* lines 442-446 without the owner IN (?) of the statement
DeprovisionForUsersRowsAnyOwner(t, users) ==
    {i \in LiveIds(t) : t[i].status \notin kafkaDeletionStatuses}

\* lines 442-446: WHERE owner IN (?) AND status NOT IN (?)
DeprovisionForUsersRows(t, users) ==
    {i \in LiveIds(t) : t[i].owner \in users /\ t[i].status \notin kafkaDeletionStatuses}

\* lines 441-463: one statement, then one pair of counters per row
DeprovisionKafkaForUsers ==
    /\ \E users \in SUBSET Owners, ok \in BOOLEAN :
           LET c == [Idle EXCEPT !.op = "DeprovisionKafkaForUsers", !.users = users]
               rows == DeprovisionForUsersRows(table, users)
           IN  IF ~ok
               THEN /\ Begin(Done(c, ErrorGeneral))
                    /\ UNCHANGED <<table, metrics>>
               ELSE /\ Begin(Done([c EXCEPT !.wrote = TRUE], NoError))
                    /\ table' = BulkDeprovisionStmt(table, rows)
                    /\ metrics' = Bump(metrics, {"deprovision_total", "deprovision_success"},
                                       Cardinality(rows))
    /\ UNCHANGED <<mu, config, dns, sso>>

\* lines 466-468 without the id NOT IN (?) of lines 470-472
DeprovisionExpiredRowsNoExemption(t, age, longLived) ==
    {i \in LiveIds(t) :
        /\ t[i].createdAt <= Now - age
        /\ t[i].status \notin kafkaDeletionStatuses}

\* lines 466-473: WHERE created_at <= now - age AND status NOT IN (?)
\* [AND id NOT IN (?) when the exemption list is not empty]
DeprovisionExpiredRows(t, age, longLived) ==
    {i \in LiveIds(t) :
        /\ t[i].createdAt <= Now - age
        /\ t[i].status \notin kafkaDeletionStatuses
        /\ Cardinality(longLived) > 0 => i \notin longLived}

\* lines 465-491
DeprovisionExpiredKafkas ==
    /\ \E age \in 0..MaxAge, ok \in BOOLEAN :
           LET c == [Idle EXCEPT !.op = "DeprovisionExpiredKafkas", !.age = age]
               rows == DeprovisionExpiredRows(table, age, config.longLived)
           IN  IF ~ok
               THEN /\ Begin(Done(c, ErrorGeneral))
                    /\ UNCHANGED <<table, metrics>>
               ELSE /\ Begin(Done([c EXCEPT !.wrote = TRUE], NoError))
                    /\ table' = BulkDeprovisionStmt(table, rows)
                    /\ metrics' = Bump(metrics, {"deprovision_total", "deprovision_success"},
                                       Cardinality(rows))
    /\ UNCHANGED <<mu, config, dns, sso>>

\* ------------------------------------------------------------ Update
\* lines 628-630 without the status not IN (?) of the statement
UpdateMatchesAnyStatus(row, req) ==
    /\ row.id = req.id
    /\ ~row.deleted

\* lines 628-632: UPDATE ... SET <the non-zero fields of req> WHERE id = ?
\* AND status NOT IN (?) AND deleted_at IS NULL
UpdateMatches(row, req) ==
    /\ row.id = req.id
    /\ ~row.deleted
    /\ row.status \notin kafkaDeletionStatuses

\* line 632 written as a save: the zero fields of req are written too
UpdatesStmtZeroFields(t, req) ==
    [i \in DOMAIN t |->
        IF UpdateMatches(t[i], req)
        THEN [t[i] EXCEPT !.status = req.status, !.clusterID = req.clusterID,
                          !.host = req.host, !.ssoId = req.ssoId,
                          !.ssoSecret = req.ssoSecret]
        ELSE t[i]]

UpdatesStmt(t, req) ==
    [i \in DOMAIN t |->
        IF UpdateMatches(t[i], req)
        THEN [t[i] EXCEPT
                !.status = IF req.status # "" THEN req.status ELSE @,
                !.clusterID = IF req.clusterID # "" THEN req.clusterID ELSE @,
                !.host = IF req.host # NoHost THEN req.host ELSE @,
                !.ssoId = IF req.ssoId # NoSso THEN req.ssoId ELSE @,
                !.ssoSecret = IF req.ssoSecret # NoSso THEN req.ssoSecret ELSE @]
        ELSE t[i]]

\* what the workers hand to Update: a working status, or the cluster the
\* placement assigns; deprovisioning and deletion go through UpdateStatus and the
\* bulk statements
UpdateInputs(id) ==
    {[NoRequest EXCEPT !.id = id, !.status = st] :
        st \in KafkaStatuses \ kafkaDeletionStatuses}
    \cup {[NoRequest EXCEPT !.id = id, !.clusterID = c] : c \in ClusterIDs \ {""}}

\* lines 627-637
Update ==
    /\ \E id \in LiveIds(table), ok \in BOOLEAN :
        \E req \in UpdateInputs(id) :
           LET c == [Idle EXCEPT !.op = "Update", !.id = id]
           IN  IF ~ok
               THEN /\ Begin(Done(c, ErrorGeneral))
                    /\ table' = table
               ELSE /\ Begin(Done([c EXCEPT !.wrote = TRUE], NoError))
                    /\ table' = UpdatesStmt(table, req)
    /\ UNCHANGED <<mu, config, dns, sso, metrics>>

\* ----------------------------------------------- PrepareKafkaRequest
\* line 307 left out: the cluster DNS name is used as it comes
RewriteClusterDNSKept(clusterDNS) == clusterDNS

\* line 307 / 512
RewriteClusterDNS(clusterDNS) ==
    Replace1(clusterDNS, DefaultIngressDnsNamePrefix, ManagedKafkaIngressDnsNamePrefix)

\* lines 296-300: the caller hands in a record it read from the store;
\* valid: whether replaceHostSpecialChar accepts the identifier
PrepareKafkaRequestCall ==
    \E id \in {i \in LiveIds(table) : table[i].clusterID # ""}, valid \in BOOLEAN :
        LET c == [Idle EXCEPT !.op = "PrepareKafkaRequest", !.id = id,
                              !.req = table[id]]
        IN  /\ Begin(IF ~valid THEN Done(c, ErrorGeneral)
                        ELSE [c EXCEPT !.pc = "prep_dns"])
            /\ UNCHANGED <<table, mu, config, dns, sso, metrics>>

\* lines 308-312 without line 312: the host stays on the cluster domain
PrepareBootstrapServerHostOnCluster(ident, clusterDNS, cfg) ==
    BootstrapServerHost(ident, clusterDNS)

\* lines 308-312: the bootstrap host PrepareKafkaRequest gives the record
PrepareBootstrapServerHost(ident, clusterDNS, cfg) ==
    IF cfg.extCert
    THEN BootstrapServerHost(ident, KafkaDomainName)
    ELSE BootstrapServerHost(ident, clusterDNS)

\* lines 302-317: GetClusterDNS, then the CNAME batch in external
\* certificate mode
PrepareKafkaRequestDNS(call) ==
    /\ call \in InFlight
    /\ call.pc = "prep_dns"
    /\ \E dnsOk \in BOOLEAN, changeOk \in BOOLEAN :
        LET c == call
            clusterDNS == RewriteClusterDNS(ClusterDNSName(c.req.clusterID))
            ident == buildTruncateKafkaIdentifier(c.req)
            next == IF config.auth THEN "prep_sso" ELSE "prep_update"
        IN  IF ~dnsOk
            THEN Return(call, c, ErrorGeneral) /\ dns' = dns
            ELSE IF ~config.extCert
            THEN /\ Step(call, [c EXCEPT !.req.host =
                                         PrepareBootstrapServerHost(ident, clusterDNS, config),
                                      !.pc = next])
                 /\ dns' = dns
            ELSE LET host == PrepareBootstrapServerHost(ident, clusterDNS, config)
                 IN  IF ~changeOk
                     THEN Return(call, c, ErrorGeneral) /\ dns' = dns
                     ELSE /\ Step(call, [c EXCEPT !.req.host = host, !.pc = next])
                          /\ dns' = ChangeResourceRecordSets(dns,
                                       buildKafkaClusterCNAMESRecordBatch(
                                           host, clusterDNS, "CREATE", NumOfBrokers))
    /\ UNCHANGED <<table, mu, ncalls, config, sso, metrics>>

\* lines 319-325
PrepareKafkaRequestSSO(call) ==
    /\ call \in InFlight
    /\ call.pc = "prep_sso"
    /\ \E ok \in BOOLEAN :
        LET c == call
            clientId == BuildKeycloakClientNameIdentifier(c.req.id)
        IN  IF ~ok
            THEN Return(call, c, ErrorFailedToCreateSSOClient) /\ sso' = sso
            ELSE /\ Step(call, [c EXCEPT !.req.ssoId = clientId,
                                      !.req.ssoSecret = ClientSecret(clientId),
                                      !.pc = "prep_update"])
                 /\ sso' = sso \cup {clientId}
    /\ UNCHANGED <<table, mu, ncalls, config, dns, metrics>>

\* lines 329-337 left out: the record itself is handed to Update
updatedKafkaRequestWhole(req) ==
    [req EXCEPT !.status = KafkaRequestStatusProvisioning]

\* lines 329-337: the fields PrepareKafkaRequest hands to Update
updatedKafkaRequest(req) ==
    [NoRequest EXCEPT !.id = req.id, !.host = req.host, !.ssoId = req.ssoId,
                      !.ssoSecret = req.ssoSecret,
                      !.status = KafkaRequestStatusProvisioning]

\* lines 338-340 with the statement applied although it reports an error
PrepareKafkaRequestSaveHalfDone(t, req, ok) ==
    [table |-> UpdatesStmt(t, updatedKafkaRequest(req)),
     err |-> IF ok THEN NoError ELSE ErrorGeneral]

\* lines 338-342: k.Update and what PrepareKafkaRequest returns after it;
\* ok: whether the statement succeeds
PrepareKafkaRequestSave(t, req, ok) ==
    IF ~ok
    THEN [table |-> t, err |-> ErrorGeneral]
    ELSE [table |-> UpdatesStmt(t, updatedKafkaRequest(req)), err |-> NoError]

\* lines 338-342
PrepareKafkaRequestUpdate(call) ==
    /\ call \in InFlight
    /\ call.pc = "prep_update"
    /\ \E ok \in BOOLEAN :
        LET c == call
            saved == PrepareKafkaRequestSave(table, c.req, ok)
        IN  /\ Return(call, [c EXCEPT !.wrote = ok], saved.err)
            /\ table' = saved.table
    /\ UNCHANGED <<mu, ncalls, config, dns, sso, metrics>>

\* ------------------------------------------------------------ Delete
\* lines 497-519 left out: the row is deleted straight away
DeleteFirstStepRowOnly(req, cfg) == "del_row"

\* the first cleanup step lines 497-519 leave to do
DeleteFirstStep(req, cfg) ==
    IF req.clusterID # "" /\ cfg.auth THEN "del_sso"
    ELSE IF req.clusterID # "" /\ cfg.extCert THEN "del_dns"
    ELSE "del_row"

DeleteCall ==
    \E id \in LiveIds(table) :
        LET c == [Idle EXCEPT !.op = "Delete", !.id = id, !.req = table[id]]
        IN  /\ Begin([c EXCEPT !.pc = DeleteFirstStep(c.req, config)])
            /\ UNCHANGED <<table, mu, config, dns, sso, metrics>>

\* line 503 written with the error kind of line 323
DeleteSSOErrorAsInPrepare(ok) ==
    IF ok THEN NoError ELSE ErrorFailedToCreateSSOClient

\* lines 501-504: what Delete makes of the answer of DeRegisterClientInSSO
DeleteSSOError(ok) == IF ok THEN NoError ELSE ErrorGeneral

\* lines 499-505
DeleteSSO(call) ==
    /\ call \in InFlight
    /\ call.pc = "del_sso"
    /\ \E ok \in BOOLEAN :
        LET c == call
        IN  IF DeleteSSOError(ok) # NoError
            THEN Return(call, c, DeleteSSOError(ok)) /\ sso' = sso
            ELSE /\ Step(call, [c EXCEPT !.pc = IF config.extCert THEN "del_dns"
                                             ELSE "del_row"])
                 /\ sso' = sso \ {BuildKeycloakClientNameIdentifier(c.req.id)}
    /\ UNCHANGED <<table, mu, ncalls, config, dns, metrics>>

\* lines 507-518
DeleteDNS(call) ==
    /\ call \in InFlight
    /\ call.pc = "del_dns"
    /\ \E dnsOk \in BOOLEAN, changeOk \in BOOLEAN :
        LET c == call
        IN  IF ~dnsOk \/ ~changeOk
            THEN Return(call, c, ErrorGeneral) /\ dns' = dns
            ELSE /\ Step(call, [c EXCEPT !.pc = "del_row"])
                 /\ dns' = ChangeResourceRecordSets(dns,
                              buildKafkaClusterCNAMESRecordBatch(
                                  c.req.host, RewriteClusterDNS(ClusterDNSName(c.req.clusterID)),
                                  "DELETE", NumOfBrokers))
    /\ UNCHANGED <<table, mu, ncalls, config, sso, metrics>>

\* line 522: UPDATE ... SET deleted_at = now WHERE id = ? AND deleted_at IS NULL
DeleteStmt(t, id) ==
    [i \in DOMAIN t |-> IF i = id THEN [t[i] EXCEPT !.deleted = TRUE] ELSE t[i]]

\* lines 521-529
DeleteRow(call) ==
    /\ call \in InFlight
    /\ call.pc = "del_row"
    /\ \E ok \in BOOLEAN :
        LET c == call
        IN  IF ~ok
            THEN /\ Return(call, c, ErrorGeneral)
                 /\ UNCHANGED <<table, metrics>>
            ELSE /\ Return(call, [c EXCEPT !.wrote = TRUE], NoError)
                 /\ table' = DeleteStmt(table, c.req.id)
                 /\ metrics' = Bump(metrics, {"delete_total", "delete_success"}, 1)
    /\ UNCHANGED <<mu, ncalls, config, dns, sso>>

\* ------------------------------------------------------- Get and List
\* lines 381-385 with no WHERE clause on the caller
ScopedToAnyone(row, ctx) == TRUE

\* lines 381-385 with the two branches exchanged
ScopedFlagExchanged(row, ctx) ==
    IF ctx.filterByOrg THEN row.owner = ctx.user ELSE row.org = ctx.org

\* lines 381-385 and 555-561: organisation_id = orgId when the flag is set,
\* owner = user otherwise
Scoped(row, ctx) ==
    IF ctx.filterByOrg THEN row.org = ctx.org ELSE row.owner = ctx.user

\* the identity check as RegisterKafkaDeprovisionJob makes it (lines
\* 414-418): the username is not looked at
AuthenticatedByClaimsOnly(ctx) == ctx.claims

\* lines 365-373 and 541-549: the context carries claims and the claims a
\* username
Authenticated(ctx) == ctx.claims /\ ctx.user # ""

\* the rows of the query without the deleted_at IS NULL of the soft delete
VisibleUnscoped(t, ctx) == {i \in DOMAIN t : Scoped(t[i], ctx)}

\* the rows the query of a caller ranges over
Visible(t, ctx) == {i \in LiveIds(t) : Scoped(t[i], ctx)}

\* lines 360-392: one SELECT ... WHERE id = ? AND <scope> ... LIMIT 1
Get ==
    \E id \in DOMAIN table \cup {MissingId, EmptyId}, ctx \in ReadContexts,
       ok \in BOOLEAN :
        LET c == [Idle EXCEPT !.op = "Get", !.id = id, !.ctx = ctx]
        IN  /\ Begin(IF id = EmptyId
                        THEN Done(c, ErrorValidation)
                        ELSE IF ~Authenticated(ctx)
                        THEN Done(c, ErrorUnauthenticated)
                        ELSE IF ~ok
                        THEN Done(c, handleGetError(FALSE))
                        ELSE IF id \notin Visible(table, ctx)
                        THEN Done(c, handleGetError(TRUE))
                        ELSE Done([c EXCEPT !.result = <<table[id]>>], NoError))
            /\ UNCHANGED <<table, mu, config, dns, sso, metrics>>

\* kafka_requests.name: the name the caller gave the record of this id
KafkaName(id) == (3 * id) % 5

\* ORDER BY name over a set of row ids
RECURSIVE OrderByName(_)
OrderByName(ids) ==
    IF ids = {} THEN <<>>
    ELSE LET first == CHOOSE i \in ids : \A j \in ids : KafkaName(i) <= KafkaName(j)
         IN  <<first>> \o OrderByName(ids \ {first})

ListPages == {1, 2}
ListSizes == {1, 2}

\* lines 533-561: no store access yet
ListCall ==
    \E ctx \in ReadContexts, page \in ListPages, size \in ListSizes :
        LET c == [Idle EXCEPT !.op = "List", !.ctx = ctx, !.page = page,
                              !.size = size]
        IN  /\ Begin(IF ~Authenticated(ctx)
                        THEN Done(c, ErrorUnauthenticated)
                        ELSE [c EXCEPT !.pc = "list_count"])
            /\ UNCHANGED <<table, mu, config, dns, sso, metrics>>

\* lines 583-588: SELECT count(*); its error is not looked at and leaves
\* total at zero; the size is clamped to the total
ListCount(call) ==
    /\ call \in InFlight
    /\ call.pc = "list_count"
    /\ \E ok \in BOOLEAN :
        LET total == IF ok THEN Cardinality(Visible(table, call.ctx)) ELSE 0
        IN  Step(call, [call EXCEPT !.pc = "list_find", !.total = total,
                                    !.size = IF call.size > total THEN total
                                             ELSE call.size])
    /\ UNCHANGED <<table, mu, ncalls, config, dns, sso, metrics>>

\* OFFSET offset LIMIT limit over ordered rows; a limit of zero is, with
\* the version of the library, either LIMIT 0 or no LIMIT clause
Window(rows, offset, limit, noLimit) ==
    LET n == IF limit = 0 /\ noLimit THEN Len(rows) ELSE limit
    IN  SubSeq(rows, offset + 1,
               IF offset + n > Len(rows) THEN Len(rows) ELSE offset + n)

\* lines 589-596: SELECT ... ORDER BY name OFFSET ? LIMIT ?
ListFind(call) ==
    /\ call \in InFlight
    /\ call.pc = "list_find"
    /\ \E ok \in BOOLEAN, noLimit \in BOOLEAN :
        LET ordered == OrderByName(Visible(table, call.ctx))
            found == Window(ordered, (call.page - 1) * call.size, call.size, noLimit)
        IN  IF ~ok
            THEN Return(call, call, ErrorGeneral)
            ELSE Return(call, [call EXCEPT !.result = [i \in DOMAIN found |->
                                                          table[found[i]]]],
                        NoError)
    /\ UNCHANGED <<table, mu, ncalls, config, dns, sso, metrics>>

\* ------------------------------------------ GetManagedKafkaByClusterID
\* lines 713-766: the deployment descriptor of a record, the fields that
\* come from the record
BuildManagedKafkaCR(kafkaRequest, cfg) ==
    [id |-> kafkaRequest.id,
     bootstrapServerHost |-> kafkaRequest.host,
     version |-> kafkaRequest.version,
     deleted |-> kafkaRequest.status = KafkaRequestStatusDeprovision,
     clientId |-> IF cfg.auth THEN kafkaRequest.ssoId ELSE NoSso,
     clientSecret |-> IF cfg.auth THEN kafkaRequest.ssoSecret ELSE NoSso]

\* lines 600-609 without the status IN (?) of the query
ManagedKafkaRowsAnyStatus(t, clusterID, cfg) ==
    {i \in LiveIds(t) :
        /\ t[i].clusterID = clusterID
        /\ t[i].host # NoHost
        /\ cfg.auth => t[i].ssoId # NoSso /\ t[i].ssoSecret # NoSso}

\* lines 600-609: WHERE cluster_id = ? AND status IN (?) AND
\* bootstrap_server_host != '' [AND sso_client_id != '' AND
\* sso_client_secret != '' with authentication enabled]
ManagedKafkaRows(t, clusterID, cfg) ==
    {i \in LiveIds(t) :
        /\ t[i].clusterID = clusterID
        /\ t[i].status \in kafkaManagedCRStatuses
        /\ t[i].host # NoHost
        /\ cfg.auth => t[i].ssoId # NoSso /\ t[i].ssoSecret # NoSso}

\* the orders in which a query without ORDER BY may hand over its rows
Orderings(ids) ==
    {f \in [1..Cardinality(ids) -> ids] :
        \A j, k \in 1..Cardinality(ids) : j # k => f[j] # f[k]}

\* lines 599-625: one SELECT, then one descriptor per row
GetManagedKafkaByClusterID ==
    /\ \E clusterID \in ClusterIDs, ok \in BOOLEAN :
          LET c == [Idle EXCEPT !.op = "GetManagedKafkaByClusterID",
                                !.clusterID = clusterID]
          IN  IF ~ok
              THEN Begin(Done(c, ErrorGeneral))
              ELSE \E rows \in Orderings(ManagedKafkaRows(table, clusterID, config)) :
                      Begin(Done([c EXCEPT !.result =
                                     [k \in DOMAIN rows |->
                                         BuildManagedKafkaCR(table[rows[k]], config)]],
                                 NoError))
    /\ UNCHANGED <<table, mu, config, dns, sso, metrics>>

AdmissionActions ==
    \/ RegisterKafkaJobCall
    \/ \E call \in InFlight : RegisterKafkaJobLock(call)
    \/ \E call \in InFlight : RegisterKafkaJobCapacity(call)
    \/ \E call \in InFlight : RegisterKafkaJobQuota(call)
    \/ \E call \in InFlight : RegisterKafkaJobSave(call)

PrepareActions ==
    \/ PrepareKafkaRequestCall
    \/ \E call \in InFlight : PrepareKafkaRequestDNS(call)
    \/ \E call \in InFlight : PrepareKafkaRequestSSO(call)
    \/ \E call \in InFlight : PrepareKafkaRequestUpdate(call)
    \/ Update

StatusActions ==
    \/ UpdateStatusCall
    \/ \E call \in InFlight : UpdateStatusGet(call)
    \/ \E call \in InFlight : UpdateStatusWrite(call)
    \/ RegisterKafkaDeprovisionJobCall
    \/ \E call \in InFlight : RegisterKafkaDeprovisionJobFirst(call)
    \/ DeprovisionKafkaForUsers
    \/ DeprovisionExpiredKafkas

DeleteActions ==
    \/ DeleteCall
    \/ \E call \in InFlight : DeleteSSO(call)
    \/ \E call \in InFlight : DeleteDNS(call)
    \/ \E call \in InFlight : DeleteRow(call)

\* the whole service
Next == AdmissionActions \/ PrepareActions \/ StatusActions \/ DeleteActions

Spec == Init /\ [][Next]_vars

\* callers reading a store of one or two records (the second one new, or
\* set to Ready on a cluster by the workers, with or without a bootstrap
\* host, before any preparation)
\* while records are deleted. A read changes nothing, so a read that
\* starts when no other is in progress and none has just returned gets
\* every answer a read can get.
SecondRows ==
    {[NoRequest EXCEPT !.id = 2, !.owner = o, !.org = OrgOf(o),
                       !.status = KafkaRequestStatusAccepted,
                       !.version = DefaultKafkaVersion, !.createdAt = 0] :
        o \in Owners}
    \cup
    {[NoRequest EXCEPT !.id = 2, !.owner = "u2", !.org = OrgOf("u2"),
                       !.status = KafkaRequestStatusReady,
                       !.version = DefaultKafkaVersion, !.clusterID = "c1",
                       !.createdAt = 0, !.host = h] :
        h \in {NoHost,
               BootstrapServerHost(
                   buildTruncateKafkaIdentifier([NoRequest EXCEPT !.id = 2]),
                   KafkaDomainName)}}

InitRead ==
    /\ config \in Configs
    /\ \E r \in InitRows(config), more \in {<<>>} \cup {<<s>> : s \in SecondRows} :
          /\ table = <<r>> \o more
          /\ dns = IF config.extCert /\ r.host # NoHost
                   THEN ChangeResourceRecordSets({},
                            buildKafkaClusterCNAMESRecordBatch(r.host,
                                Replace1(ClusterDNSName(r.clusterID),
                                         DefaultIngressDnsNamePrefix,
                                         ManagedKafkaIngressDnsNamePrefix),
                                "CREATE", NumOfBrokers))
                   ELSE {}
          /\ sso = IF r.ssoId # NoSso THEN {r.ssoId} ELSE {}
    /\ mu = FALSE
    /\ calls = EmptyBag
    /\ last = Idle
    /\ ncalls = 0
    /\ metrics = [m \in MetricNames |-> 0]

ReadMayStart ==
    /\ last.op \notin {"Get", "List", "GetManagedKafkaByClusterID"}
    /\ \A c \in InFlight : c.op # "List"

NextRead ==
    \/ DeleteActions
    \/ ReadMayStart /\ Get
    \/ ReadMayStart /\ ListCall
    \/ ReadMayStart /\ GetManagedKafkaByClusterID
    \/ \E call \in InFlight : ListCount(call)
    \/ \E call \in InFlight : ListFind(call)

SpecRead == InitRead /\ [][NextRead]_vars

\* admissions and deletions on a fleet at its ceiling: MaxCapacity records
\* on a cluster, in any status, all live or one of them soft-deleted
CapacityStatuses ==
    {KafkaRequestStatusAccepted, KafkaRequestStatusReady,
     KafkaRequestStatusDeprovision, KafkaRequestStatusDeleting}

CapacityRow(i, status, deleted, cfg) ==
    LET prepared == status # KafkaRequestStatusAccepted
    IN  [NoRequest EXCEPT
            !.id = i, !.owner = "u1", !.org = OrgOf("u1"), !.status = status,
            !.version = DefaultKafkaVersion, !.clusterID = "c1", !.createdAt = 0,
            !.host = IF prepared THEN PreparedHost(i, "c1", cfg) ELSE NoHost,
            !.ssoId = IF prepared /\ cfg.auth
                      THEN BuildKeycloakClientNameIdentifier(i) ELSE NoSso,
            !.ssoSecret = IF prepared /\ cfg.auth
                          THEN ClientSecret(BuildKeycloakClientNameIdentifier(i))
                          ELSE NoSso,
            !.deleted = deleted]

\* the DNS records a prepared row has at the authority
RowRecords(row, cfg) ==
    IF cfg.extCert /\ row.host # NoHost
    THEN ChangeResourceRecordSets({},
             buildKafkaClusterCNAMESRecordBatch(row.host,
                 Replace1(ClusterDNSName(row.clusterID), DefaultIngressDnsNamePrefix,
                          ManagedKafkaIngressDnsNamePrefix),
                 "CREATE", NumOfBrokers))
    ELSE {}

InitCapacity ==
    /\ config \in Configs
    /\ \E status \in [1..MaxCapacity -> CapacityStatuses],
          gone \in {{}} \cup {{i} : i \in 1..MaxCapacity} :
          table = [i \in 1..MaxCapacity |->
                     CapacityRow(i, status[i], i \in gone, config)]
    /\ dns = UNION {RowRecords(table[i], config) : i \in LiveIds(table)}
    /\ sso = {table[i].ssoId : i \in LiveIds(table)} \ {NoSso}
    /\ mu = FALSE
    /\ calls = EmptyBag
    /\ last = Idle
    /\ ncalls = 0
    /\ metrics = [m \in MetricNames |-> 0]

NextCapacity == AdmissionActions \/ DeleteActions

SpecCapacity == InitCapacity /\ [][NextCapacity]_vars

\* admission when the collaborators return: the count statement, the quota
\* authority and the Save statement answer (with a result or an error), and
\* sync.Mutex hands a free mutex to a process blocked in Lock
AdmissionFairness ==
    /\ WF_vars(\E call \in InFlight : RegisterKafkaJobLock(call))
    /\ WF_vars(\E call \in InFlight : RegisterKafkaJobCapacity(call))
    /\ WF_vars(\E call \in InFlight : RegisterKafkaJobQuota(call))
    /\ WF_vars(\E call \in InFlight : RegisterKafkaJobSave(call))

\* a fleet of MaxCapacity ready records, at its ceiling or with one record
\* soft-deleted and so one place free
InitAdmission ==
    /\ InitCapacity
    /\ \A i \in DOMAIN table : table[i].status = KafkaRequestStatusReady
    /\ \A i \in DOMAIN table : table[i].deleted => i = 1

SpecAdmissionLive == InitAdmission /\ [][NextCapacity]_vars /\ AdmissionFairness

\* the DNS change batch on its own: ChangeKafkaCNAMErecords builds it from
\* the bootstrap host of the record, the cluster ingress, the action and
\* the configured number of brokers
BatchActions == {"CREATE", "DELETE"}
BatchHosts ==
    {PreparedHost(i, c, cfg) : i \in 1..2, c \in ClusterIDs \ {""}, cfg \in Configs}
BatchIngresses ==
    {ClusterDNSName(c) : c \in ClusterIDs \ {""}}
        \cup {RewriteClusterDNS(ClusterDNSName(c)) : c \in ClusterIDs \ {""}}

InitBatch ==
    /\ config \in Configs
    /\ table = <<>>
    /\ dns = {}
    /\ sso = {}
    /\ mu = FALSE
    /\ calls = EmptyBag
    /\ ncalls = 0
    /\ metrics = [m \in MetricNames |-> 0]
    /\ \E h \in BatchHosts, g \in BatchIngresses, a \in BatchActions,
          n \in 0..NumOfBrokers :
          last = [Idle EXCEPT !.op = "ChangeKafkaCNAMErecords", !.pc = "build",
                              !.req = [NoRequest EXCEPT !.host = h],
                              !.ingress = g, !.action = a, !.brokers = n]

\* line 664
ChangeKafkaCNAMErecordsBuild ==
    /\ last.pc = "build"
    /\ last' = [last EXCEPT !.pc = "built",
                            !.result = buildKafkaClusterCNAMESRecordBatch(
                                           last.req.host, last.ingress,
                                           last.action, last.brokers)]
    /\ UNCHANGED <<table, mu, calls, ncalls, config, dns, sso, metrics>>

NextBatch == ChangeKafkaCNAMErecordsBuild

SpecBatch == InitBatch /\ [][NextBatch]_vars

\* one PrepareKafkaRequest and one reconciler UpdateStatus, in any
\* interleaving: a call of either kind starts only if none has started
RaceMayStart(op) ==
    \/ ncalls = 0
    \/ /\ ncalls = 1
       /\ last.op # op
       /\ \A c \in InFlight : c.op # op

NextRace ==
    \/ RaceMayStart("PrepareKafkaRequest") /\ PrepareKafkaRequestCall
    \/ \E call \in InFlight : PrepareKafkaRequestDNS(call)
    \/ \E call \in InFlight : PrepareKafkaRequestSSO(call)
    \/ \E call \in InFlight : PrepareKafkaRequestUpdate(call)
    \/ RaceMayStart("UpdateStatus") /\ UpdateStatusCall
    \/ \E call \in InFlight : UpdateStatusGet(call)
    \/ \E call \in InFlight : UpdateStatusWrite(call)

SpecRace == Init /\ [][NextRace]_vars

\* ===================================================== the claims
\* the step a transition takes on behalf of call c, and how it ends
Stepped(c) == c \in InFlight /\ CopiesIn(c, calls') < CopiesIn(c, calls)
Returned(c) == Stepped(c) /\ BagCardinality(calls') < BagCardinality(calls)
ContinuedAs(c, d) ==
    /\ Stepped(c)
    /\ ~Returned(c)
    /\ d \in BagToSet(calls')
    /\ CopiesIn(d, calls') > CopiesIn(d, calls)

InAdmission(c) == c.op = "RegisterKafkaJob" /\ c.pc \in {"capacity", "quota", "save"}

\* C1: whatever the number of concurrent RegisterKafkaJob calls and their
\* interleaving, the live rows never exceed the ceiling, and at most one
\* call is between its capacity check and its insert.
C1_AdmissionsSerialized ==
    /\ Count(table) <= MaxCapacity
    /\ \A c, d \in InFlight :
         InAdmission(c) /\ InAdmission(d) => c = d /\ CopiesIn(c, calls) = 1

\* an admission has just filled the fleet while another one waits for the lock
C1_Witness ==
    /\ last.op = "RegisterKafkaJob"
    /\ last.err = NoError
    /\ Count(table) = MaxCapacity
    /\ \E d \in InFlight : d.op = "RegisterKafkaJob" /\ d.pc = "lock"

\* C2: with the store healthy and the quota disabled or granted,
\* RegisterKafkaJob succeeds exactly when the live count is below the
\* ceiling at its capacity check; a success persists exactly one new row,
\* Accepted and of the default version, and nothing else changes.
C2_Step(c) ==
    /\ c.pc = "capacity" =>
         /\ Count(table) < MaxCapacity => (Returned(c) => last'.err = ErrorGeneral)
         /\ ~(Count(table) < MaxCapacity) =>
              /\ Returned(c)
              /\ last'.err \in {ErrorTooManyKafkaInstancesReached, ErrorGeneral}
    /\ c.pc = "quota" =>
         /\ Returned(c) => last'.quota \in {"denied", "error"}
         /\ ~Returned(c) => \E d \in BagToSet(calls') :
                                ContinuedAs(c, d) /\ d.quota = "allowed" /\ d.pc = "save"
    /\ c.pc = "save" =>
         /\ c.count < MaxCapacity
         /\ Count(table) < MaxCapacity
         /\ Returned(c)
         /\ last'.err \in {NoError, ErrorGeneral}
         /\ last'.err = ErrorGeneral => table' = table
         /\ last'.err = NoError =>
              /\ Len(table') = Len(table) + 1
              /\ \A i \in DOMAIN table : table'[i] = table[i]
              /\ table'[Len(table')].status = KafkaRequestStatusAccepted
              /\ table'[Len(table')].version = DefaultKafkaVersion
              /\ ~table'[Len(table')].deleted

C2_AdmitIffCapacity ==
    [][\A c \in InFlight : c.op = "RegisterKafkaJob" /\ Stepped(c) => C2_Step(c)]_vars

\* an admission succeeded and its row is there, Accepted
C2_Witness ==
    /\ last.op = "RegisterKafkaJob"
    /\ last.err = NoError
    /\ last.id \in LiveIds(table)
    /\ table[last.id].status = KafkaRequestStatusAccepted
    /\ table[last.id].version = DefaultKafkaVersion

\* C3: at the ceiling RegisterKafkaJob returns TooManyKafkaInstancesReached,
\* and when the count fails HasAvailableCapacity reports (false, error) and
\* RegisterKafkaJob returns a general error; either way the call ends at the
\* capacity check: the quota authority is not called, no row is persisted.
C3_Step(c) ==
    /\ Count(table) >= MaxCapacity => Returned(c)
    /\ Returned(c) =>
         /\ last'.err \in {ErrorTooManyKafkaInstancesReached, ErrorGeneral}
         /\ last'.err = ErrorTooManyKafkaInstancesReached => Count(table) >= MaxCapacity
         /\ ~last'.hasCapacity
         /\ last'.quota = "none"
         /\ ~last'.wrote
         /\ table' = table

C3_CapacityShortCircuits ==
    [][\A c \in InFlight :
         c.op = "RegisterKafkaJob" /\ c.pc = "capacity" /\ Stepped(c) => C3_Step(c)]_vars

\* an admission was turned away at the ceiling
C3_Witness ==
    /\ last.op = "RegisterKafkaJob"
    /\ last.err = ErrorTooManyKafkaInstancesReached
    /\ last.quota = "none"
    /\ Count(table) = MaxCapacity

\* C4: with quota enforcement on, a denied reservation makes
\* RegisterKafkaJob return InsufficientQuota and a failed authority call an
\* error; in both cases no row is persisted and no DNS record or identity
\* client is created.
C4_Step(c) ==
    /\ config.quota
    /\ Returned(c) =>
         /\ \/ last'.quota = "denied" /\ last'.err = ErrorInsufficientQuota
            \/ last'.quota = "error" /\ last'.err = ErrorFailedToCheckQuota
         /\ ~last'.wrote
         /\ table' = table
         /\ dns' = dns
         /\ sso' = sso
    /\ ~Returned(c) => \A d \in BagToSet(calls') : ContinuedAs(c, d) => d.quota = "allowed"

C4_QuotaGate ==
    [][\A c \in InFlight :
         c.op = "RegisterKafkaJob" /\ c.pc = "quota" /\ Stepped(c) => C4_Step(c)]_vars

\* an admission was denied its quota
C4_Witness ==
    /\ last.op = "RegisterKafkaJob"
    /\ last.quota = "denied"
    /\ last.err = ErrorInsufficientQuota
    /\ config.quota

\* C5: once a record is in Deprovision, no step of any interleaving of
\* UpdateStatus, Prepare, Update, RegisterKafkaDeprovisionJob and the bulk
\* deprovisions moves it to anything but Deleting.
C5_DeprovisionFrozen ==
    [][\A i \in DOMAIN table :
         table[i].status = KafkaRequestStatusDeprovision
            => table'[i].status \in {KafkaRequestStatusDeprovision,
                                     KafkaRequestStatusDeleting}]_vars

\* C6: an UpdateStatus(id, s) that reads Deprovision with s not Deleting, or
\* reads s itself, returns attempted = false and issues no write: the
\* store is left as it was.
C6_Rejected(current, status) ==
    \/ current = KafkaRequestStatusDeprovision /\ status # KafkaRequestStatusDeleting
    \/ current = status

C6_Step(c) ==
    c.id \in LiveIds(table) /\ C6_Rejected(table[c.id].status, c.status) =>
        /\ Returned(c)
        /\ ~last'.wrote
        /\ table' = table
        /\ last'.read = table[c.id].status => ~last'.attempted

C6_RejectedUpdateWritesNothing ==
    [][\A c \in InFlight : c.pc = "us_get" /\ Stepped(c) => C6_Step(c)]_vars

\* an UpdateStatus to Ready read Deprovision and was turned down
C6_Witness ==
    /\ last.op = "UpdateStatus"
    /\ last.read = KafkaRequestStatusDeprovision
    /\ last.status = KafkaRequestStatusReady
    /\ ~last.attempted
    /\ ~last.wrote
    /\ last.id \in LiveIds(table)
    /\ table[last.id].status = KafkaRequestStatusDeprovision

\* C7: the boolean UpdateStatus returns is true only when a status write
\* was issued, and false whenever none was, the failed lookup included.
C7_AttemptedIffWriteIssued ==
    last.op = "UpdateStatus" => (last.attempted <=> last.wrote)

\* C8: a record's status becomes Deleting only in a step that finds it in
\* Deprovision.
C8_DeletingOnlyFromDeprovision ==
    [][\A i \in DOMAIN table :
         table'[i].status = KafkaRequestStatusDeleting
         /\ table[i].status # KafkaRequestStatusDeleting
            => table[i].status = KafkaRequestStatusDeprovision]_vars

\* C9: no operation moves a record that is Deleting back to Deprovision.
C9_NoDeprovisionFromDeleting ==
    [][\A i \in DOMAIN table :
         table[i].status = KafkaRequestStatusDeleting
            => table'[i].status # KafkaRequestStatusDeprovision]_vars

\* the order Accepted, Provisioning, Ready/Failed
C10_Rank(status) ==
    IF status = KafkaRequestStatusAccepted THEN 0
    ELSE IF status = KafkaRequestStatusProvisioning THEN 1
    ELSE 2

C10_Working == KafkaStatuses \ kafkaDeletionStatuses

\* C10 as stated: in no step of Admit, Prepare, UpdateStatus or a
\* deprovision operation (the general Update is left aside) does a record
\* move backward in the order Accepted, Provisioning, Ready/Failed, and its
\* status is always in the enumeration.
C10_ByUpdate == ncalls' = ncalls + 1 /\ last'.op = "Update"

C10_NeverBackward ==
    [][C10_ByUpdate \/ \A i \in DOMAIN table :
         /\ table'[i].status \in KafkaStatuses
         /\ table[i].status \in C10_Working /\ table'[i].status \in C10_Working
               => C10_Rank(table'[i].status) >= C10_Rank(table[i].status)]_vars

\* C10 as amended: after any sequence of Admit, Prepare, UpdateStatus and
\* deprovision operations every record's status is a member of the fixed
\* enumeration (the order itself is not enforced).
C10_StatusInEnumeration ==
    \A i \in DOMAIN table : table[i].status \in KafkaStatuses

\* an UpdateStatus has just taken a Ready record back to Accepted
C10_Witness ==
    /\ last.op = "UpdateStatus"
    /\ last.read = KafkaRequestStatusReady
    /\ last.status = KafkaRequestStatusAccepted
    /\ last.wrote
    /\ last.err = NoError
    /\ last.id \in LiveIds(table)
    /\ table[last.id].status = KafkaRequestStatusAccepted

\* the step in which a call that never waits starts and returns
ReturnedAtOnce(op) == ncalls' = ncalls + 1 /\ calls' = calls /\ last'.op = op

\* the row the update of a PrepareKafkaRequest call finds: live and not
\* under deletion
C11_Found(c) ==
    /\ c.id \in LiveIds(table)
    /\ table[c.id].status \notin kafkaDeletionStatuses

\* the host of record id on cluster clusterID without external certificate
C11_ClusterHost(id, clusterID) ==
    [ident |-> <<"kafka-label", id>>, domain |-> <<"kas", clusterID>>]

\* C11 as stated: whenever PrepareKafkaRequest returns success the persisted
\* record is Provisioning and has a bootstrap host.
C11_SuccessMeansProvisioning ==
    [][\A c \in InFlight :
         c.op = "PrepareKafkaRequest" /\ Returned(c) /\ last'.err = NoError
            => /\ table'[c.id].status = KafkaRequestStatusProvisioning
               /\ table'[c.id].host # NoHost]_vars

\* C11 as amended: when PrepareKafkaRequest returns success and its update
\* found the record live and not in deprovision or deleting, the persisted
\* record is Provisioning with a bootstrap host, which without external
\* certificate is <identifier>.<cluster DNS name with the prefix rewritten>;
\* on a record under deletion or soft-deleted it returns success and the
\* store is left as it was.
C11_Step(c) ==
    IF C11_Found(c)
    THEN /\ table'[c.id].status = KafkaRequestStatusProvisioning
         /\ table'[c.id].host # NoHost
         /\ ~config.extCert => table'[c.id].host = C11_ClusterHost(c.id, c.req.clusterID)
    ELSE table' = table

C11_PreparedWhenFound ==
    [][\A c \in InFlight :
         c.op = "PrepareKafkaRequest" /\ Returned(c) /\ last'.err = NoError
            => C11_Step(c)]_vars

\* a preparation without external certificate succeeded on cluster c1
C11_Witness ==
    /\ last.op = "PrepareKafkaRequest"
    /\ last.err = NoError
    /\ ~config.extCert
    /\ last.id \in LiveIds(table)
    /\ table[last.id].status = KafkaRequestStatusProvisioning
    /\ table[last.id].clusterID = "c1"
    /\ table[last.id].host = C11_ClusterHost(last.id, "c1")

\* C12: a PrepareKafkaRequest that fails, at the identifier, the cluster DNS
\* lookup, the DNS records, the identity client or the store update,
\* returns an error (the distinct FailedToCreateSSOClient for the identity
\* client) and leaves every persisted record as it was; only the step that
\* returns success writes.
C12_Step(c) ==
    /\ table' # table => Returned(c) /\ last'.err = NoError /\ c.pc = "prep_update"
    /\ Returned(c) /\ last'.err # NoError =>
         /\ table' = table
         /\ c.pc = "prep_sso" => last'.err = ErrorFailedToCreateSSOClient
         /\ c.pc # "prep_sso" => last'.err = ErrorGeneral

C12_FailedPreparationWritesNothing ==
    [][/\ ReturnedAtOnce("PrepareKafkaRequest") =>
             last'.err = ErrorGeneral /\ table' = table
       /\ \A c \in InFlight :
             c.op = "PrepareKafkaRequest" /\ Stepped(c) => C12_Step(c)]_vars

\* a preparation failed at the identity client and the record is still
\* Accepted and unprepared
C12_Witness ==
    /\ last.op = "PrepareKafkaRequest"
    /\ last.at = "prep_sso"
    /\ last.err = ErrorFailedToCreateSSOClient
    /\ last.id \in LiveIds(table)
    /\ table[last.id].status = KafkaRequestStatusAccepted
    /\ table[last.id].host = NoHost
    /\ table[last.id].ssoId = NoSso
    /\ table[last.id].ssoSecret = NoSso

\* UpdateStatus(id, status) run with nothing between its read and its write
C13_AtomicUpdateStatus(t, id, status) ==
    IF /\ id \in LiveIds(t)
       /\ ~(t[id].status = KafkaRequestStatusDeprovision
            /\ status # KafkaRequestStatusDeleting)
       /\ t[id].status # status
    THEN [t EXCEPT ![id].status = status]
    ELSE t

\* C13: with one PrepareKafkaRequest and one UpdateStatus interleaved on a
\* record, the write of UpdateStatus leaves the store as an UpdateStatus
\* run whole at that instant would (so the run equals Prepare then
\* UpdateStatus, or UpdateStatus then Prepare), keeping what Prepare wrote;
\* and the one statement of Prepare depends on nothing UpdateStatus writes
\* and touches only its own fields.
C13_Step(c) ==
    /\ c.op = "UpdateStatus" /\ c.pc = "us_write" =>
         /\ Returned(c)
         /\ last'.err = NoError => table' = C13_AtomicUpdateStatus(table, c.id, c.status)
         /\ last'.err # NoError => table' = table
    /\ c.op = "UpdateStatus" /\ c.pc = "us_get" => table' = table
    /\ c.op = "PrepareKafkaRequest" =>
         /\ c.req.id = c.id
         /\ c.req.clusterID = table[c.id].clusterID
         /\ \A i \in DOMAIN table :
              /\ [table'[i] EXCEPT !.status = "", !.host = NoHost,
                                   !.ssoId = NoSso, !.ssoSecret = NoSso]
                 = [table[i] EXCEPT !.status = "", !.host = NoHost,
                                    !.ssoId = NoSso, !.ssoSecret = NoSso]
              /\ table'[i] # table[i] =>
                   /\ i = c.id
                   /\ table'[i].status = KafkaRequestStatusProvisioning
                   /\ table'[i].host = PreparedHost(i, c.req.clusterID, config)

C13_PrepareAndUpdateStatusSerialize ==
    [][\A c \in InFlight : Stepped(c) => C13_Step(c)]_vars

\* UpdateStatus(1, ready) read accepted on the unprepared record, Prepare
\* wrote in between, and the record ends ready with Prepare's host
C13_Witness ==
    /\ last.op = "UpdateStatus"
    /\ last.read = KafkaRequestStatusAccepted
    /\ last.status = KafkaRequestStatusReady
    /\ last.err = NoError
    /\ ncalls = 2
    /\ calls = EmptyBag
    /\ last.id \in LiveIds(table)
    /\ table[last.id].status = KafkaRequestStatusReady
    /\ table[last.id].host = PreparedHost(last.id, table[last.id].clusterID, config)

\* a record without the four fields a preparation sets
C14_Rest(row) ==
    [row EXCEPT !.status = "", !.host = NoHost, !.ssoId = NoSso, !.ssoSecret = NoSso]

C15_PreparedNow(i) ==
    \E c \in InFlight :
        /\ c.op = "PrepareKafkaRequest"
        /\ c.id = i
        /\ Returned(c)
        /\ last'.err = NoError

C15_Row(i) ==
    /\ \/ table'[i].host # table[i].host
       \/ table'[i].ssoId # table[i].ssoId
       \/ table'[i].ssoSecret # table[i].ssoSecret
       => C15_PreparedNow(i)
    /\ table[i].ssoId # NoSso => table'[i].ssoId = table[i].ssoId
    /\ table[i].host # NoHost /\ table'[i].host # table[i].host =>
         /\ ~config.extCert
         /\ table'[i].host.ident = table[i].host.ident
         /\ \E c \in InFlight :
              /\ c.op = "PrepareKafkaRequest" /\ c.id = i /\ Returned(c)
              /\ table'[i].host.domain = <<"kas", c.req.clusterID>>
              /\ table[i].host.domain # <<"kas", c.req.clusterID>>

Started(d) ==
    /\ ncalls' = ncalls + 1
    /\ d \in BagToSet(calls')
    /\ CopiesIn(d, calls') > CopiesIn(d, calls)

C16_Deleted(t) == {i \in DOMAIN t : t[i].deleted}

\* what a Delete on a record with a cluster has to clean up first
C16_NeedsSSO(c) == c.req.clusterID # "" /\ config.auth
C16_NeedsDNS(c) == c.req.clusterID # "" /\ config.extCert

\* C16: Delete soft-deletes the row and counts the deletion only after the
\* identity client deletion (authentication enabled) and the DNS record
\* removal (external certificate) have both succeeded on a record with a
\* cluster; when one of them or the cluster DNS lookup fails Delete returns
\* an error, the table is as before and no delete counter moves.
C16_Step(c) ==
    /\ c.pc = "del_sso" =>
         /\ table' = table /\ metrics' = metrics
         /\ Returned(c) => last'.err # NoError /\ sso' = sso
         /\ ~Returned(c) =>
              /\ BuildKeycloakClientNameIdentifier(c.req.id) \notin sso'
              /\ \E d \in BagToSet(calls') :
                   /\ ContinuedAs(c, d)
                   /\ d.pc = IF C16_NeedsDNS(c) THEN "del_dns" ELSE "del_row"
    /\ c.pc = "del_dns" =>
         /\ table' = table /\ metrics' = metrics
         /\ Returned(c) => last'.err # NoError /\ dns' = dns
         /\ ~Returned(c) =>
              /\ \A n \in dns' : n.host # c.req.host
              /\ \E d \in BagToSet(calls') : ContinuedAs(c, d) /\ d.pc = "del_row"
    /\ c.pc = "del_row" =>
         /\ Returned(c)
         /\ last'.err # NoError => table' = table /\ metrics' = metrics
         /\ last'.err = NoError =>
              /\ C16_Deleted(table') = C16_Deleted(table) \cup {c.req.id}
              /\ metrics'.delete_total = metrics.delete_total + 1
              /\ metrics'.delete_success = metrics.delete_success + 1

C17_ExternalProvisioningFailure == "external-provisioning-failure"

ReadReturned ==
    \/ ReturnedAtOnce("Get")
    \/ ReturnedAtOnce("List")
    \/ \E c \in InFlight : c.op = "List" /\ Returned(c)

RecordsReturned == {last'.result[i] : i \in DOMAIN last'.result}

\* C18 as stated: no Get and no List returns a record whose organisation
\* is not the organisation the caller is authenticated as.
C18_OrganisationIsolation ==
    [][ReadReturned => \A r \in RecordsReturned : r.org = last'.ctx.org]_vars

\* C18 as amended: a record is never returned by Get or List to a caller
\* with the filter-by-organisation flag whose organisation differs from the
\* record's, nor to a caller without the flag whose username differs from
\* the record's owner; without the flag the organisations are not compared.
C18_IsolationByScope ==
    [][ReadReturned =>
         \A r \in RecordsReturned :
            /\ last'.ctx.filterByOrg => r.org = last'.ctx.org
            /\ ~last'.ctx.filterByOrg => r.owner = last'.ctx.user]_vars

\* a caller of another organisation, with the flag, asks for the exact id
\* of a live record and is answered not found
C18_Witness ==
    /\ last.op = "Get"
    /\ last.err = ErrorNotFound
    /\ last.ctx.filterByOrg
    /\ last.id \in LiveIds(table)
    /\ table[last.id].org # last.ctx.org
    /\ last.result = <<>>

\* whether record id exists, is live and is in the scope of caller ctx
C19_InScope(t, id, ctx) ==
    /\ id \in DOMAIN t
    /\ ~t[id].deleted
    /\ IF ctx.filterByOrg THEN t[id].org = ctx.org ELSE t[id].owner = ctx.user

\* C19: Get returns a record exactly when it returns no error, the record
\* is then the live record of the id asked for and is in the caller's scope
\* (organisation with the flag, owner without); a not-found answer means
\* there is no such record, and an authenticated caller with such a record
\* gets it unless the store fails. List returns only live records in the
\* caller's scope.
C19_GetIffInScope ==
    [][/\ ReturnedAtOnce("Get") =>
            LET c == last'
                found == C19_InScope(table, c.id, c.ctx)
            IN  /\ c.result # <<>> <=> c.err = NoError
                /\ c.err = NoError => found /\ c.result = <<table[c.id]>>
                /\ c.err = ErrorNotFound => ~found
                /\ found /\ c.ctx.claims /\ c.ctx.user # ""
                      => c.err \in {NoError, ErrorGeneral}
       /\ (\E c \in InFlight : c.op = "List" /\ Returned(c)) =>
            \A r \in RecordsReturned :
                C19_InScope(table, r.id, last'.ctx) /\ r = table[r.id]]_vars

\* with the flag, a caller gets the live record of another user of the
\* same organisation
C19_Witness ==
    /\ last.op = "Get"
    /\ last.err = NoError
    /\ last.ctx.filterByOrg
    /\ last.result = <<table[last.id]>>
    /\ table[last.id].owner # last.ctx.user
    /\ table[last.id].org = last.ctx.org

\* C20: no Get and no List returns a soft-deleted record.
C20_DeletedNeverRead ==
    [][ReadReturned => \A r \in RecordsReturned : ~table[r.id].deleted]_vars

\* after a successful Delete the owner asks for the record and is answered
\* not found
C20_Witness ==
    /\ last.op = "Get"
    /\ last.err = ErrorNotFound
    /\ last.id \in DOMAIN table
    /\ table[last.id].deleted
    /\ metrics["delete_success"] > 0
    /\ ~last.ctx.filterByOrg
    /\ table[last.id].owner = last.ctx.user

\* the caller of the read that returns in this step has no resolvable
\* identity: no claims, or claims without a username
C21_NoIdentity == ~last'.ctx.claims \/ last'.ctx.user = ""

\* C21 as stated: a Get or a List without a resolvable caller identity
\* returns an Unauthenticated error and no record.
C21_MissingIdentityUnauthenticated ==
    [][ReadReturned /\ C21_NoIdentity
          => last'.err = ErrorUnauthenticated /\ last'.result = <<>>]_vars

\* C21 as amended: a List, and a Get with a non-empty id, without a
\* resolvable caller identity return an Unauthenticated error; a Get with
\* an empty id returns a Validation error whoever calls; in neither case is
\* the answer a not-found error or a record.
C21_MissingIdentityNoRecord ==
    [][ReadReturned /\ C21_NoIdentity
          => /\ last'.result = <<>>
             /\ last'.err # ErrorNotFound
             /\ IF last'.op = "Get" /\ last'.id = EmptyId
                THEN last'.err = ErrorValidation
                ELSE last'.err = ErrorUnauthenticated]_vars

\* a caller whose claims carry no username asks for a live record by id
C21_Witness ==
    /\ last.op = "Get"
    /\ last.ctx.claims
    /\ last.ctx.user = ""
    /\ last.id \in LiveIds(table)
    /\ last.err = ErrorUnauthenticated
    /\ last.result = <<>>

\* call c of RegisterKafkaDeprovisionJob is about to query the store for
\* a live record its caller does not own
C22_NotOwner(c) ==
    /\ c.op = "RegisterKafkaDeprovisionJob"
    /\ c.pc = "rd_first"
    /\ c.ctx.claims
    /\ c.id \in DOMAIN table
    /\ ~table[c.id].deleted
    /\ table[c.id].owner # c.ctx.user

\* the same, for an id no record has
C22_NoSuchId(c) ==
    /\ c.op = "RegisterKafkaDeprovisionJob"
    /\ c.pc = "rd_first"
    /\ c.ctx.claims
    /\ c.id \notin DOMAIN table

\* C22: the query of RegisterKafkaDeprovisionJob by an authenticated caller
\* who is not the owner of the record ends the call with what it ends with
\* for an id that does not exist (not found, or General when the store
\* fails), and leaves the table and the counters as they are.
C22_NotOwnerAsNotFound ==
    [][\A c \in InFlight :
         (C22_NotOwner(c) \/ C22_NoSuchId(c)) /\ Stepped(c)
            => /\ Returned(c)
               /\ last'.err \in {ErrorNotFound, ErrorGeneral}
               /\ last' = [Done(c, last'.err) EXCEPT !.at = "rd_first"]
               /\ table' = table
               /\ metrics' = metrics]_vars

\* a caller who is not the owner asked for the deprovisioning of a live
\* record and was answered not found; the record's status is as it was
C22_Witness ==
    /\ last.op = "RegisterKafkaDeprovisionJob"
    /\ last.at = "rd_first"
    /\ last.err = ErrorNotFound
    /\ last.ctx.claims
    /\ last.ctx.user \in Owners
    /\ last.id \in LiveIds(table)
    /\ table[last.id].owner # last.ctx.user
    /\ table[last.id].status # KafkaRequestStatusDeprovision

\* C23: a RegisterKafkaDeprovisionJob call whose UpdateStatus reported
\* attempted = false has incremented no deprovision counter, total or
\* success (stated for the call that ran alone from the start, when the
\* counters hold what this call added).
C23_NoMetricUnlessExecuted ==
    /\ ncalls = 1
    /\ last.op = "RegisterKafkaDeprovisionJob"
    /\ last.at = "us_get"
    /\ ~last.attempted
    => /\ metrics["deprovision_total"] = 0
       /\ metrics["deprovision_success"] = 0

\* record i is live, of one of the owners, and neither Deprovision nor
\* Deleting
C24_Eligible(i, owners) ==
    /\ ~table[i].deleted
    /\ table[i].owner \in owners
    /\ table[i].status # KafkaRequestStatusDeprovision
    /\ table[i].status # KafkaRequestStatusDeleting

\* C24: a DeprovisionKafkaForUsers that succeeds sets the status of
\* exactly the live records of the listed owners that are neither
\* Deprovision nor Deleting to Deprovision, changes no other field and no
\* other record; one that fails changes nothing.
C24_ExactlyTheOwnersRecords ==
    [][ReturnedAtOnce("DeprovisionKafkaForUsers") =>
         /\ DOMAIN table' = DOMAIN table
         /\ \A i \in DOMAIN table :
               IF last'.err = NoError /\ C24_Eligible(i, last'.users)
               THEN table'[i] = [table[i] EXCEPT !.status = KafkaRequestStatusDeprovision]
               ELSE table'[i] = table[i]]_vars

\* after a bulk deprovisioning for some owners, a record of theirs is in
\* Deprovision and a record of another owner is still Accepted
C24_Witness ==
    /\ last.op = "DeprovisionKafkaForUsers"
    /\ last.err = NoError
    /\ metrics["deprovision_success"] > 0
    /\ \E i, j \in LiveIds(table) :
          /\ table[i].owner \in last.users
          /\ table[i].status = KafkaRequestStatusDeprovision
          /\ table[j].owner \notin last.users
          /\ table[j].status = KafkaRequestStatusAccepted

\* record i is live, not exempt, created at least age ago, and neither
\* Deprovision nor Deleting
C25_Eligible(i, age) ==
    /\ ~table[i].deleted
    /\ i \notin config.longLived
    /\ table[i].createdAt + age <= Now
    /\ table[i].status # KafkaRequestStatusDeprovision
    /\ table[i].status # KafkaRequestStatusDeleting

\* C25: a DeprovisionExpiredKafkas that succeeds moves to Deprovision
\* every live record that is not in the exemption list, was created at
\* least the given age ago and is neither Deprovision nor Deleting; exempt
\* records, younger records and every other field are unchanged; one that
\* fails changes nothing.
C25_ExpiredButNotExempt ==
    [][ReturnedAtOnce("DeprovisionExpiredKafkas") =>
         /\ DOMAIN table' = DOMAIN table
         /\ \A i \in DOMAIN table :
               IF last'.err = NoError /\ C25_Eligible(i, last'.age)
               THEN table'[i] = [table[i] EXCEPT !.status = KafkaRequestStatusDeprovision]
               ELSE table'[i] = table[i]]_vars

\* after an expiry run the exempt record, old enough, is as it was while
\* another record has moved to Deprovision
C25_Witness ==
    /\ last.op = "DeprovisionExpiredKafkas"
    /\ last.err = NoError
    /\ metrics["deprovision_success"] > 0
    /\ \E i, j \in LiveIds(table) :
          /\ i \in config.longLived
          /\ table[i].createdAt + last.age <= Now
          /\ table[i].status \notin {KafkaRequestStatusDeprovision, KafkaRequestStatusDeleting}
          /\ j \notin config.longLived
          /\ table[j].status = KafkaRequestStatusDeprovision

\* the change C26 expects at position k of the batch for host h, ingress g
\* and action a: the bootstrap name, the admin server name, then the
\* brokers from zero
C26_Name(k, h) ==
    IF k = 1 THEN [prefix |-> <<>>, host |-> h]
    ELSE IF k = 2 THEN [prefix |-> <<"admin-server">>, host |-> h]
    ELSE [prefix |-> <<"broker", k - 3>>, host |-> h]

\* C26: the batch built for n brokers, host h, ingress g and an action has
\* exactly n + 2 changes, named h, admin-server-h, broker-0-h ...
\* broker-(n-1)-h in this order, each a CNAME with the action asked for,
\* TTL 300 and the single value elb.g.
C26_BatchShape ==
    last.op = "ChangeKafkaCNAMErecords" /\ last.pc = "built" =>
        /\ Len(last.result) = last.brokers + 2
        /\ \A k \in 1..Len(last.result) :
              /\ last.result[k].name = C26_Name(k, last.req.host)
              /\ last.result[k].action = last.action
              /\ last.result[k].type = "CNAME"
              /\ last.result[k].ttl = 300
              /\ last.result[k].values = << <<"elb">> \o last.ingress >>

\* the batch of three brokers for a CREATE: five changes, the last one
\* for broker 2
C26_Witness ==
    /\ last.op = "ChangeKafkaCNAMErecords"
    /\ last.pc = "built"
    /\ last.brokers = 3
    /\ last.action = "CREATE"
    /\ Len(last.result) = 5
    /\ last.result[5].name.prefix = <<"broker", 2>>

\* the number of live records in the scope of caller ctx
C27_InScopeCount(ctx) ==
    Cardinality({i \in DOMAIN table : C19_InScope(table, i, ctx)})

C28_Exposed(clusterID) ==
    {i \in DOMAIN table :
        /\ ~table[i].deleted
        /\ table[i].clusterID = clusterID
        /\ table[i].status \in {KafkaRequestStatusProvisioning, KafkaRequestStatusReady,
                                KafkaRequestStatusFailed, KafkaRequestStatusDeprovision}
        /\ table[i].host # [ident |-> <<>>, domain |-> <<>>]
        /\ config.auth => table[i].ssoId # <<>> /\ table[i].ssoSecret # <<>>}

\* C28: a GetManagedKafkaByClusterID that succeeds returns one descriptor
\* for each of exactly those records, with the record's bootstrap host,
\* and with Deleted true exactly for a record in Deprovision; no
\* descriptor is of an Accepted or a Deleting record; one that fails
\* returns none.
C28_ExactlyTheManagedRecords ==
    [][ReturnedAtOnce("GetManagedKafkaByClusterID") =>
         LET res == last'.result
         IN  IF last'.err # NoError THEN res = <<>>
             ELSE /\ {res[k].id : k \in DOMAIN res} = C28_Exposed(last'.clusterID)
                  /\ Len(res) = Cardinality(C28_Exposed(last'.clusterID))
                  /\ \A k \in DOMAIN res :
                        /\ res[k].deleted
                             <=> table[res[k].id].status = KafkaRequestStatusDeprovision
                        /\ res[k].bootstrapServerHost = table[res[k].id].host
                        /\ table[res[k].id].status
                             \notin {KafkaRequestStatusAccepted, KafkaRequestStatusDeleting}]_vars

\* the descriptors of a cluster holding a record in Deprovision, flagged
\* deleted, and a Ready record without bootstrap host, left out
C28_Witness ==
    /\ last.op = "GetManagedKafkaByClusterID"
    /\ last.err = NoError
    /\ Len(last.result) = 1
    /\ last.result[1].deleted
    /\ last.result[1].id \in LiveIds(table)
    /\ table[last.result[1].id].status = KafkaRequestStatusDeprovision
    /\ \E i \in LiveIds(table) :
          /\ table[i].clusterID = last.clusterID
          /\ table[i].status = KafkaRequestStatusReady
          /\ table[i].host = NoHost

\* the records that are not soft-deleted, whatever their status
C29_Consuming(t) == Cardinality({i \in DOMAIN t : ~t[i].deleted})

\* C29: every record that is not soft-deleted counts against the ceiling,
\* whatever its status. An admission whose capacity check finds as many
\* such records as the ceiling allows is turned away; the live records
\* never exceed the ceiling; and their number goes down only in the step
\* of a Delete that soft-deletes one row, so that one deletion at the
\* ceiling makes room for one admission and no more.
C29_CapacityHeldUntilDeleted ==
    [][/\ C29_Consuming(table') <= MaxCapacity
       /\ C29_Consuming(table') < C29_Consuming(table) =>
             /\ C29_Consuming(table') = C29_Consuming(table) - 1
             /\ \E c \in InFlight :
                   c.op = "Delete" /\ Returned(c) /\ last'.err = NoError
       /\ \A c \in InFlight :
             c.op = "RegisterKafkaJob" /\ c.pc = "capacity" /\ Stepped(c) =>
                /\ C29_Consuming(table) >= MaxCapacity =>
                      /\ Returned(c)
                      /\ last'.err \in {ErrorTooManyKafkaInstancesReached, ErrorGeneral}
                /\ Returned(c) /\ last'.err = ErrorTooManyKafkaInstancesReached
                      => C29_Consuming(table) >= MaxCapacity
       /\ C29_Consuming(table') > C29_Consuming(table) =>
             /\ C29_Consuming(table) < MaxCapacity
             /\ C29_Consuming(table') = C29_Consuming(table) + 1]_vars

\* a soft-deleted record had left room for one: one admission took it and
\* the next was turned away, while a record in Deprovision or Deleting
\* still counts
C29_Witness ==
    /\ last.op = "RegisterKafkaJob"
    /\ last.err = ErrorTooManyKafkaInstancesReached
    /\ C29_Consuming(table) = MaxCapacity
    /\ Len(table) = MaxCapacity + 1
    /\ ~table[Len(table)].deleted
    /\ \E i \in DOMAIN table : table[i].deleted
    /\ \E i \in DOMAIN table :
          ~table[i].deleted /\ table[i].status \in kafkaDeletionStatuses

\* <identifier>.<fleet public domain> for record id
C30_PublicHost(id) ==
    [ident |-> <<"kafka-label", id>>, domain |-> <<"kafka", "public">>]

\* C30: with external certificate enabled, the step of PrepareKafkaRequest
\* that submits the DNS CREATE batch creates no identity client; when it
\* fails the call returns with the DNS records, the identity clients and
\* the table as they were; when it succeeds the records of
\* <identifier>.<fleet public domain> are at the DNS authority and that
\* host is the one the call goes on with. An identity client is created
\* only by a call past that step, and the host a successful call persists
\* is the public one, not one on the cluster domain.
C30_Step(c) ==
    /\ c.pc = "prep_dns" =>
         /\ sso' = sso /\ table' = table
         /\ Returned(c) => last'.err = ErrorGeneral /\ dns' = dns
         /\ ~Returned(c) =>
              \E d \in BagToSet(calls') :
                 /\ ContinuedAs(c, d)
                 /\ d.pc \in {"prep_sso", "prep_update"}
                 /\ d.req.host = C30_PublicHost(c.req.id)
                 /\ [prefix |-> <<>>, host |-> C30_PublicHost(c.req.id)] \in dns'
    /\ sso' # sso => c.pc = "prep_sso" /\ c.req.host = C30_PublicHost(c.req.id)
    /\ Returned(c) /\ last'.err = NoError /\ table' # table =>
         /\ table'[c.req.id].host = C30_PublicHost(c.req.id)
         /\ table'[c.req.id].host.domain # <<"kas", c.req.clusterID>>

C30_DNSBeforeIdentityClient ==
    [][\A c \in InFlight :
         c.op = "PrepareKafkaRequest" /\ Stepped(c) /\ config.extCert
            => C30_Step(c)]_vars

\* a preparation under external certificate went through: the record has
\* the public host, its DNS records and its identity client are there
C30_Witness ==
    /\ config.extCert
    /\ last.op = "PrepareKafkaRequest"
    /\ last.err = NoError
    /\ last.wrote
    /\ last.id \in LiveIds(table)
    /\ table[last.id].host = C30_PublicHost(last.id)
    /\ table[last.id].status = KafkaRequestStatusProvisioning
    /\ [prefix |-> <<>>, host |-> C30_PublicHost(last.id)] \in dns
    /\ <<"kafka", last.id>> \in sso

\* this step is the statement of an Update, called by a worker or as the
\* persist step of PrepareKafkaRequest
C31_UpdateWrites ==
    \/ ReturnedAtOnce("Update")
    \/ \E c \in InFlight :
          c.op = "PrepareKafkaRequest" /\ c.pc = "prep_update" /\ Stepped(c)

\* C31: the statement of Update, the persist step of PrepareKafkaRequest
\* included, leaves every record that is in Deprovision or Deleting when
\* the statement runs exactly as it is.
C31_NoUpdateUnderDeletion ==
    [][C31_UpdateWrites =>
         /\ DOMAIN table' = DOMAIN table
         /\ \A i \in DOMAIN table :
               table[i].status \in {KafkaRequestStatusDeprovision,
                                    KafkaRequestStatusDeleting}
                  => table'[i] = table[i]]_vars

\* a deprovisioning landed while PrepareKafkaRequest was on its way: the
\* preparation returned without an error and the record is in Deprovision
\* still, without the bootstrap host the preparation meant to write
C31_Witness ==
    /\ last.op = "PrepareKafkaRequest"
    /\ last.at = "prep_update"
    /\ last.err = NoError
    /\ last.id \in LiveIds(table)
    /\ table[last.id].status = KafkaRequestStatusDeprovision
    /\ table[last.id].host = NoHost

C32_Admissions == {c \in InFlight : c.op = "RegisterKafkaJob"}

\* C32: every return of RegisterKafkaJob, with an error or without, leaves
\* the mutex free; the mutex changes in no step but one of a
\* RegisterKafkaJob call; and when the store and the quota authority
\* answer, a held mutex is released and every admission on its way returns.
C32_LockReleasedOnEveryExit ==
    /\ [][/\ \A c \in C32_Admissions : Returned(c) => ~mu'
          /\ mu' # mu => \E c \in C32_Admissions : Stepped(c)]_vars
    /\ (mu ~> ~mu)
    /\ ((C32_Admissions # {}) ~> (C32_Admissions = {}))

\* an admission returned an error and left the mutex free while another
\* admission is blocked in Lock
C32_Witness ==
    /\ last.op = "RegisterKafkaJob"
    /\ last.err # NoError
    /\ ~mu
    /\ \E c \in C32_Admissions : c.pc = "lock"

\* call c of RegisterKafkaDeprovisionJob, by the owner, takes a step while
\* its record is live and in Deprovision
C33_OnDeprovisioned(c) ==
    /\ c.op = "RegisterKafkaDeprovisionJob"
    /\ Stepped(c)
    /\ c.id \in LiveIds(table)
    /\ table[c.id].owner = c.ctx.user
    /\ table[c.id].status = KafkaRequestStatusDeprovision

\* C33: RegisterKafkaDeprovisionJob by the owner on a record already in
\* Deprovision changes no record at any of its steps, and when UpdateStatus
\* reads the record it returns without an error and without a write
\* (with a general error and nothing written if the store fails that read).
C33_DeprovisionIdempotent ==
    [][\A c \in InFlight :
          C33_OnDeprovisioned(c) =>
             /\ table' = table
             /\ c.pc = "us_get" =>
                   /\ Returned(c)
                   /\ \/ last'.err = NoError /\ ~last'.attempted
                      \/ last'.err = ErrorGeneral /\ last'.attempted]_vars

\* two calls by the owner on the same record: one moved it to Deprovision,
\* the other found it there and returned nil without a write
C33_Witness ==
    /\ last.op = "RegisterKafkaDeprovisionJob"
    /\ last.at = "us_get"
    /\ last.err = NoError
    /\ ~last.attempted
    /\ last.id \in LiveIds(table)
    /\ table[last.id].owner = last.ctx.user
    /\ table[last.id].status = KafkaRequestStatusDeprovision
    /\ metrics["deprovision_total"] = 2
    /\ metrics["deprovision_success"] = 1

====
